---- MODULE Spec2Model ----
(* Telinga: customer notification dispatch, inbound feedback webhooks,      *)
(* sentiment reaction.  State machine of the Django/Celery application:     *)
(* the database tables, the Celery task records and, in `last`, the         *)
(* observable effects of the handler that ran most recently.                *)
EXTENDS Integers, Sequences, FiniteSets, TLC

VARIABLES debug, customers, tasks, message_status, feedback, nylas_webhooks, twilio,
          trackers, last

vars ==
    <<debug, customers, tasks, message_status, feedback, nylas_webhooks, twilio,
      trackers, last>>

(* ------------------------------------------------------------------ *)
(* Bounds of the model                                                 *)
(* ------------------------------------------------------------------ *)
MaxCustomers == 2
MaxTasks == 2
MaxFeedback == 1
MaxWebhooks == 2
MaxTrackers == 2

(* Python's None in a field that otherwise holds a string *)
NULL == "None"

(* the test compares with None only *)
Truthy_not_none(v) == v # NULL

(* the truth value of an optional string: None and "" are false *)
Truthy(v) == v # NULL /\ v # ""

Min(a, b) == IF a < b THEN a ELSE b

(* ------------------------------------------------------------------ *)
(* Input values                                                        *)
(* ------------------------------------------------------------------ *)
Phone1 == "15551234567"
Email1 == "ann@x.io"

CSV_REQUIRED_HEADERS == <<"phone_number", "email", "first_name", "last_name">>

(* f"{{{{{header}}}}}": the header between double braces *)
Placeholder(header) == "{{" \o header \o "}}"

(* message templates of an upload request, as token sequences *)
TemplateHi == <<"Hi ", "{{first_name}}", " ", "{{last_name}}">>
TemplateAmp == <<"R&D news for ", "{{first_name}}">>
TemplateBad == <<"Hi ", "{{nickname}}">>
Templates == {TemplateHi, TemplateAmp, TemplateBad}

IsPlaceholderToken(tok) ==
    tok \in {"{{phone_number}}", "{{email}}", "{{first_name}}", "{{last_name}}", "{{nickname}}"}

(* the entity table of django.utils.html.escape, per template token *)
escape(tok) == IF tok = "R&D news for " THEN "R&amp;D news for " ELSE tok

(* ------------------------------------------------------------------ *)
(* Template rendering                                                  *)
(* ------------------------------------------------------------------ *)
RECURSIVE parse_headers(_, _, _)
parse_headers(i, parsed_message, customer) ==
    IF i > Len(CSV_REQUIRED_HEADERS)
    THEN [exc |-> NULL, text |-> parsed_message]
    ELSE LET header == CSV_REQUIRED_HEADERS[i]
             placeholder == Placeholder(header)
         IN IF \E k \in 1..Len(parsed_message) : parsed_message[k] = placeholder
            THEN LET value == customer[header]
                 IN IF value = NULL
                    THEN [exc |-> "TypeError", text |-> parsed_message]
                    ELSE parse_headers(
                           i + 1,
                           [k \in 1..Len(parsed_message) |->
                              IF parsed_message[k] = placeholder
                              THEN value ELSE parsed_message[k]],
                           customer)
            ELSE parse_headers(i + 1, parsed_message, customer)

parse_message(message_format, customer) == parse_headers(1, message_format, customer)

(* ------------------------------------------------------------------ *)
(* Provider identifiers                                                *)
(* ------------------------------------------------------------------ *)
(* the length of str(uuid.uuid4()) and the slice taken of it *)
UuidStrLength == 36
UuidSlice == 34

(* a Twilio message SID, unique per accepted send *)
twilio_sid(n) == [kind |-> "SM", n |-> n]
(* the id of a message the email provider sent; the root id of its thread *)
nylas_id(n) == [kind |-> "nylas", n |-> n]
(* str(uuid.uuid4())[:34] *)
uuid_placeholder(n) == [kind |-> "uuid", n |-> n]
uuid_placeholder_length == Min(UuidStrLength, UuidSlice)

(* ------------------------------------------------------------------ *)
(* Channel dispatcher                                                  *)
(* ------------------------------------------------------------------ *)
SmsOutcomes == {"sid", "TwilioRestException", "ConnectionError"}
MailOutcomes == {"sent", "NylasApiError", "ExceptionNoArgs"}

HasPlus(phone_number) == phone_number \in {"+15551234567", "+15550000000"}

(* send_sms: the number the transport is asked to deliver to *)
sms_to(phone_number) ==
    IF HasPlus(phone_number) THEN phone_number ELSE "+" \o phone_number

(* send_email_nylas: <<stat, id>> or the exception leaving the handler *)
send_email_nylas(outcome, n) ==
    CASE outcome = "sent" -> [exc |-> NULL, stat |-> TRUE, id |-> nylas_id(n)]
      [] outcome = "ExceptionNoArgs" ->
            (* str(e.args[0]) in the except block indexes an empty tuple *)
            [exc |-> "IndexError", stat |-> FALSE, id |-> uuid_placeholder(n)]
      [] OTHER -> [exc |-> NULL, stat |-> FALSE, id |-> uuid_placeholder(n)]

(* get_or_create on the customer: an existing row is returned, none added *)
message_status_get_or_create(table, customer_id, message_sid, status) ==
    IF \E k \in 1..Len(table) : table[k].customer = customer_id
    THEN [exc |-> NULL, table |-> table]
    ELSE [exc |-> NULL,
          table |-> Append(table, [customer |-> customer_id,
                                   message_sid |-> message_sid,
                                   status |-> status])]

(* MessageStatus.objects.create: customer is a OneToOneField, message_sid unique *)
message_status_create(table, customer_id, message_sid, status) ==
    IF \E k \in 1..Len(table) :
          table[k].customer = customer_id \/ table[k].message_sid = message_sid
    THEN [exc |-> "IntegrityError", table |-> table]
    ELSE [exc |-> NULL,
          table |-> Append(table, [customer |-> customer_id,
                                   message_sid |-> message_sid,
                                   status |-> status])]

(* send_message: exc is the exception it raises (NULL: it returns), sms and *)
(* mail the recipients of the transport invocations it made, transport the *)
(* answer of the invoked transport, table the MessageStatus table after    *)
(* it.  n numbers the provider's answer.                                   *)
send_message(customer_id, customer, table, sms_outcome, mail_outcome, n) ==
    LET body == parse_message(customer.message_format, customer)
        none == [exc |-> NULL, sms |-> <<>>, mail |-> <<>>, table |-> table,
                 channel |-> "none", transport |-> NULL]
    IN IF Truthy(customer.phone_number)
       THEN IF body.exc # NULL
            THEN [none EXCEPT !.exc = body.exc, !.channel = "sms"]
            ELSE LET to == sms_to("+" \o customer.phone_number)
                 IN IF sms_outcome # "sid"
                    THEN [none EXCEPT !.exc = sms_outcome, !.sms = <<to>>,
                                      !.channel = "sms", !.transport = sms_outcome]
                    ELSE LET c == message_status_create(
                                     table, customer_id, twilio_sid(n), "queued")
                         IN [exc |-> c.exc, sms |-> <<to>>, mail |-> <<>>,
                             table |-> c.table, channel |-> "sms",
                             transport |-> sms_outcome]
       ELSE IF Truthy(customer.email)
       THEN IF body.exc # NULL
            THEN [none EXCEPT !.exc = body.exc, !.channel = "email"]
            ELSE LET r == send_email_nylas(mail_outcome, n)
                 IN IF r.exc # NULL
                    THEN [none EXCEPT !.exc = r.exc, !.mail = <<customer.email>>,
                                      !.channel = "email",
                                      !.transport = mail_outcome]
                    ELSE LET c == message_status_create(
                                     table, customer_id, r.id,
                                     IF r.stat THEN "delivered" ELSE "failed")
                         IN [exc |-> c.exc, sms |-> <<>>,
                             mail |-> <<customer.email>>,
                             table |-> c.table, channel |-> "email",
                             transport |-> mail_outcome]
       ELSE none

(* ------------------------------------------------------------------ *)
(* Effects of the handler that ran last                                *)
(* ------------------------------------------------------------------ *)
NoReply == [response |-> NULL, translated_to |-> NULL, feedback |-> NULL]

NoLast ==
    [op |-> "init", customer |-> 0, task |-> 0, exc |-> NULL, status |-> 0,
     channel |-> "none", sms |-> <<>>, mail |-> <<>>, created |-> 0,
     prior |-> NULL, eta |-> NULL, retries |-> 0, state |-> NULL,
     countdown |-> 0, transport |-> NULL,
     signature |-> NULL, fb |-> 0, fired |-> 0, classified |-> 0,
     answer |-> NULL, sentiment |-> NULL, reply |-> NoReply, replied |-> NULL,
     escalated |-> NULL, escalation |-> NULL, calls |-> 0, call_to |-> <<>>,
     meetings |-> 0, participants |-> <<>>, steps |-> <<>>, fetched |-> 0,
     selected |-> {}, queried |-> <<>>, failed |-> {}, before |-> <<>>,
     prev |-> NULL, prev_failed |-> {}, response |-> NULL,
     enqueued |-> 0, worker |-> 0, row |-> 0, written |-> NULL, base |-> NULL,
     request |-> [from |-> NULL, body |-> NULL, email |-> NULL],
     event |-> [json |-> FALSE, type |-> NULL, data |-> FALSE,
                root_message_id |-> [kind |-> "none", n |-> 0]]]

(* a worker of the periodic status check: idle, or inside the loop over *)
(* the rows it selected, before the fetch or before the save of a row    *)
IdleTracker == [pc |-> "idle", todo |-> <<>>, held |-> NULL, base |-> NULL]
NoTrackers == [w \in 1..MaxTrackers |-> IdleTracker]

(* ------------------------------------------------------------------ *)
(* CSV upload                                                          *)
(* ------------------------------------------------------------------ *)
MaxRows == 2

csv_row(phone_number, email, first_name, last_name) ==
    [phone_number |-> phone_number, email |-> email,
     first_name |-> first_name, last_name |-> last_name]

(* rows of csv.reader: a column the row is too short for reads as None, an *)
(* empty column as the empty string                                        *)
Rows ==
    {csv_row(Phone1, "", "Ann", NULL),
     csv_row("", Email1, "Ann", "Doe"),
     csv_row(Phone1, Email1, "Ann", "Doe"),
     csv_row("", "", "Ann", "Doe"),
     csv_row("12ab", Email1, "Ann", "Doe")}

Csvs == UNION {[1..n -> Rows] : n \in 1..MaxRows}

IsNumeric(phone_number) == phone_number \in {Phone1, "15550000000"}

(* CustomerSerializer.is_valid, the fields of the Customer model *)
serializer_is_valid(row) ==
    /\ row.phone_number # NULL => (row.phone_number = "" \/ IsNumeric(row.phone_number))
    /\ Truthy(row.first_name)

(* UniqueConstraint unique_business_customer *)
is_duplicate(table, row, message_format) ==
    \E k \in 1..Len(table) :
        /\ table[k].phone_number = row.phone_number
        /\ table[k].email = row.email
        /\ table[k].message_format = message_format
        /\ row.phone_number # NULL /\ row.email # NULL

(* validate_and_sanitize_message_format: the empty text stands for its None, *)
(* the caller tests the result for falsity                                   *)
validate_and_sanitize_message_format(message_format, headers) ==
    IF \A k \in 1..Len(message_format) :
          IsPlaceholderToken(message_format[k]) =>
             \E h \in 1..Len(headers) : message_format[k] = Placeholder(headers[h])
    THEN [k \in 1..Len(message_format) |-> escape(message_format[k])]
    ELSE <<>>

(* the message apply_async puts on the broker: the retries header starts at 0; *)
(* accepted counts the messages the SMS transport accepted for this task       *)
new_task(customer_id, eta) ==
    [customer |-> customer_id, retries |-> 0, state |-> "PENDING",
     countdown |-> 0, accepted |-> 0, eta |-> eta]

(* no call of apply_async for the customer just saved *)
enqueue_nothing(tsks, customer_id, delivery_time) == tsks

(* schedule_message.apply_async(args=[customer.id], countdown=0) when the *)
(* delivery time is "now", with eta=delivery_time otherwise               *)
enqueue(tsks, customer_id, delivery_time) ==
    Append(tsks, new_task(customer_id, delivery_time))

(* the row loop of UploadCustomerView.post.  unique_validated: the serializer *)
(* carries a validator for the unique constraint (it depends on the          *)
(* framework's version); without it the save raises.                          *)
RECURSIVE upload_rows(_, _, _, _, _, _, _, _)
upload_rows(rows, i, message_format, eta, unique_validated, custs, tsks, errors) ==
    IF i > Len(rows)
    THEN [customers |-> custs, tasks |-> tsks, errors |-> errors, exc |-> NULL]
    ELSE LET row == rows[i]
         IN IF ~Truthy(row.phone_number) /\ ~Truthy(row.email)
            THEN upload_rows(rows, i + 1, message_format, eta, unique_validated,
                             custs, tsks, errors + 1)
            ELSE IF ~serializer_is_valid(row)
                    \/ (unique_validated /\ is_duplicate(custs, row, message_format))
            THEN upload_rows(rows, i + 1, message_format, eta, unique_validated,
                             custs, tsks, errors + 1)
            ELSE IF is_duplicate(custs, row, message_format)
            THEN [customers |-> custs, tasks |-> tsks, errors |-> errors,
                  exc |-> "IntegrityError"]
            ELSE upload_rows(
                   rows, i + 1, message_format, eta, unique_validated,
                   Append(custs, [phone_number |-> row.phone_number,
                                  email |-> row.email,
                                  first_name |-> row.first_name,
                                  last_name |-> row.last_name,
                                  message_format |-> message_format]),
                   enqueue(tsks, Len(custs) + 1, eta),
                   errors)

(* UploadCustomerView.post from the validation of the message on; rows and *)
(* unique_validated are read only once the message is accepted             *)
UploadCustomerView_post(message, delivery_time) ==
    LET sanitized == validate_and_sanitize_message_format(message, CSV_REQUIRED_HEADERS)
        eta == IF delivery_time = "" THEN "now" ELSE delivery_time
    IN IF sanitized = <<>>
       THEN /\ last' = [NoLast EXCEPT !.op = "upload", !.status = 400]
            /\ UNCHANGED <<debug, customers, tasks, message_status, feedback,
                           nylas_webhooks, twilio, trackers>>
       ELSE \E rows \in Csvs, unique_validated \in BOOLEAN :
            LET r == upload_rows(rows, 1, sanitized, eta, unique_validated,
                                 customers, tasks, 0)
            IN /\ Len(r.customers) <= MaxCustomers
               /\ Len(r.tasks) <= MaxTasks
               /\ customers' = r.customers
               /\ tasks' = r.tasks
               /\ last' = [NoLast EXCEPT
                             !.op = "upload",
                             !.exc = r.exc,
                             !.eta = eta,
                             !.created = Len(r.customers) - Len(customers),
                             !.enqueued = Len(r.tasks) - Len(tasks),
                             !.status = IF r.exc # NULL \/ r.errors > 0
                                        THEN 400 ELSE 201]
               /\ UNCHANGED <<debug, message_status, feedback, nylas_webhooks, twilio, trackers>>

(* ------------------------------------------------------------------ *)
(* The dispatch task                                                   *)
(* ------------------------------------------------------------------ *)
max_retries == 3
retry_countdown == 60

(* schedule_message.apply_async for a stored customer: the broker hands the *)
(* task of a customer to a worker again                                      *)
apply_async(customer_id) ==
    /\ Len(tasks) < MaxTasks
    /\ tasks' = Append(tasks, new_task(customer_id, "now"))
    /\ last' = [NoLast EXCEPT !.op = "apply_async", !.customer = customer_id]
    /\ UNCHANGED <<debug, customers, message_status, feedback, nylas_webhooks, twilio, trackers>>

(* the task after one execution that ended with exc.  A finished task leaves *)
(* the broker: the result backend keeps its state, not its retries header.   *)
finished(task, state) ==
    [task EXCEPT !.state = state, !.retries = 0, !.countdown = 0, !.eta = NULL]

(* every exception is retried, the provider's rejection too *)
task_after_retry_all(task, exc) ==
    IF exc = NULL THEN finished(task, "SUCCESS")
    ELSE IF task.retries < max_retries
    THEN [task EXCEPT !.state = "RETRY", !.retries = @ + 1,
                      !.countdown = retry_countdown, !.eta = NULL]
    ELSE finished(task, "FAILURE")

task_after(task, exc) ==
    IF exc = NULL THEN finished(task, "SUCCESS")
    ELSE IF exc = "TwilioRestException" THEN finished(task, "FAILURE")
    ELSE IF task.retries < max_retries
    THEN [task EXCEPT !.state = "RETRY", !.retries = @ + 1,
                      !.countdown = retry_countdown, !.eta = NULL]
    ELSE finished(task, "FAILURE")

(* the executions of a task share its customer: each accepted send counts *)
task_accepted(task, r) ==
    IF r.channel = "sms" /\ r.transport = "sid"
    THEN [task EXCEPT !.accepted = @ + 1]
    ELSE task

(* the provider's side of send_sms: an accepted message starts as queued *)
twilio_after(provider, r, n) ==
    IF r.channel = "sms" /\ r.transport = "sid"
    THEN (n :> "queued") @@ provider
    ELSE provider

(* the status of the row the customer already has, NULL without one *)
prior_status(table, customer_id) ==
    IF \E k \in 1..Len(table) : table[k].customer = customer_id
    THEN table[CHOOSE k \in 1..Len(table) : table[k].customer = customer_id].status
    ELSE NULL

schedule_message(t, sms_outcome, mail_outcome) ==
    /\ tasks[t].state \in {"PENDING", "RETRY"}
    /\ LET customer_id == tasks[t].customer
           r == send_message(customer_id, customers[customer_id], message_status,
                             sms_outcome, mail_outcome, t)
       IN /\ message_status' = r.table
          /\ tasks' = [tasks EXCEPT ![t] = task_accepted(task_after(@, r.exc), r)]
          /\ last' = [NoLast EXCEPT
                        !.op = "schedule_message",
                        !.customer = customer_id,
                        !.task = t,
                        !.exc = r.exc,
                        !.retries = tasks[t].retries,
                        !.state = task_after(tasks[t], r.exc).state,
                        !.countdown = task_after(tasks[t], r.exc).countdown,
                        !.channel = r.channel,
                        !.transport = r.transport,
                        !.sms = r.sms,
                        !.mail = r.mail,
                        !.created = Len(r.table) - Len(message_status),
                        !.prior = prior_status(message_status, customer_id)]
          /\ twilio' = twilio_after(twilio, r, t)
    /\ UNCHANGED <<debug, customers, feedback, nylas_webhooks, trackers>>

(* ------------------------------------------------------------------ *)
(* Specification                                                       *)
(* ------------------------------------------------------------------ *)
Init ==
    /\ debug = FALSE
    /\ customers = <<>>
    /\ tasks = <<>>
    /\ message_status = <<>>
    /\ feedback = <<>>
    /\ nylas_webhooks = <<>>
    /\ trackers = NoTrackers
    /\ twilio = <<>>
    /\ last = NoLast

Upload ==
    /\ Len(customers) < MaxCustomers
    /\ \E message \in Templates, delivery_time \in {"", "2030-01-01T09:00"} :
          UploadCustomerView_post(message, delivery_time)

Redeliver == \E c \in 1..Len(customers) : apply_async(c)

Dispatch ==
    \E t \in 1..Len(tasks), sms_outcome \in SmsOutcomes, mail_outcome \in MailOutcomes :
        schedule_message(t, sms_outcome, mail_outcome)

Next == Upload \/ Redeliver \/ Dispatch

Spec == Init /\ [][Next]_vars

(* ------------------------------------------------------------------ *)
(* Channel dispatcher: properties                                      *)
(* ------------------------------------------------------------------ *)
Dispatched == last.op = "schedule_message"

RecordsOf(customer_id) ==
    {k \in 1..Len(message_status) : message_status[k].customer = customer_id}

(* C1: a dispatch to a customer whose phone number is set invokes the SMS   *)
(* transport and never the email transport; the email transport is invoked *)
(* only for a customer without phone number and with an email.             *)
C1_PhoneMeansSms ==
    Dispatched =>
        LET customer == customers[last.customer]
        IN /\ Truthy(customer.phone_number) =>
                 (Len(last.sms) = 1 /\ last.mail = <<>>)
           /\ last.mail # <<>> =>
                 (~Truthy(customer.phone_number) /\ Truthy(customer.email))

C3_EmailOutcomeRecorded ==
    (Dispatched /\ last.mail # <<>>) =>
        /\ last.exc = NULL
        /\ \E k \in 1..Len(message_status) :
              /\ RecordsOf(last.customer) = {k}
              /\ IF last.transport = "sent"
                 THEN /\ message_status[k].status = "delivered"
                      /\ message_status[k].message_sid.kind = "nylas"
                 ELSE /\ message_status[k].status = "failed"
                      /\ message_status[k].message_sid.kind = "uuid"
                      /\ uuid_placeholder_length <= 34

(* C4: a dispatch to a customer that already has a MessageStatus row from  *)
(* a failed attempt, whose transport answers, adds one row, leaves the     *)
(* earlier row as it was and does not fail on it.                          *)
C4_RedispatchAddsRecord ==
    (Dispatched /\ last.prior = "failed"
       /\ last.transport \in {"sid", "sent", "NylasApiError"}) =>
        /\ last.exc = NULL
        /\ last.created = 1
        /\ Cardinality(RecordsOf(last.customer)) = 2

(* C5: an execution of schedule_message that ends with TwilioRestException *)
(* leaves the task failed with no retry; with any other exception it is    *)
(* retried after 60 seconds while fewer than 3 retries were made, and left *)
(* failed after the third; no execution carries more than 3 retries, and a *)
(* finished task is not executed again.                                    *)
C5_RetryPolicy ==
    /\ \A t \in 1..Len(tasks) : tasks[t].retries <= 3
    /\ Dispatched =>
          LET task == tasks[last.task]
          IN /\ last.retries <= 3
             /\ last.exc = "TwilioRestException" =>
                   (task.state = "FAILURE" /\ last.state = "FAILURE")
             /\ (last.exc \notin {NULL, "TwilioRestException"} /\ last.retries < 3) =>
                   /\ task.state = "RETRY"
                   /\ task.retries = last.retries + 1
                   /\ task.countdown = 60
             /\ (last.exc \notin {NULL, "TwilioRestException"} /\ last.retries = 3) =>
                   task.state = "FAILURE"
             /\ task.state \in {"SUCCESS", "FAILURE"} =>
                   ~ENABLED (\E so \in SmsOutcomes, mo \in MailOutcomes :
                                schedule_message(last.task, so, mo))

C5_Witness ==
    /\ Dispatched
    /\ last.retries = 3
    /\ last.exc = "ConnectionError"
    /\ tasks[last.task].state = "FAILURE"

(* ------------------------------------------------------------------ *)
(* Dispatch over the rows the Customer table admits                    *)
(* ------------------------------------------------------------------ *)
(* phone_number and email are both null=True, blank=True and Model.save *)
(* does not run Customer.clean: rows stored through the ORM             *)
OrmCustomers ==
    [phone_number : {NULL, "", Phone1}, email : {NULL, "", Email1},
     first_name : {"Ann"}, last_name : {"Doe"},
     message_format : {validate_and_sanitize_message_format(TemplateAmp, CSV_REQUIRED_HEADERS)}]

InitOrm ==
    /\ debug = FALSE
    /\ \E n \in 1..MaxCustomers : customers \in [1..n -> OrmCustomers]
    /\ tasks = [c \in 1..Len(customers) |-> new_task(c, "now")]
    /\ message_status = <<>>
    /\ feedback = <<>>
    /\ nylas_webhooks = <<>>
    /\ trackers = NoTrackers
    /\ twilio = <<>>
    /\ last = NoLast

SpecOrm == InitOrm /\ [][Next]_vars

NoContact(customer) ==
    customer.phone_number \in {NULL, ""} /\ customer.email \in {NULL, ""}

GenericResponse == "This is a generic response"

(* what the model answers to the sentiment prompt; the last one is the *)
(* fallback of _generate_response when the call fails or has no parts  *)
SentimentAnswers == {"positive", "Negative", "neutral", "Mixed", GenericResponse}
Languages == {"english", "french"}

lower(text) ==
    CASE text = "Negative" -> "negative"
      [] text = "Mixed" -> "mixed"
      [] text = GenericResponse -> "this is a generic response"
      [] OTHER -> text

(* the answer is returned as the model gave it, in lower case *)
sentiment_analysis_uncoerced(answer) == lower(answer)

sentiment_analysis(answer) ==
    LET result == lower(answer)
    IN IF result \in {"positive", "negative", "neutral"} THEN result ELSE "neutral"

PositiveText == "Thank you for your positive feedback! We appreciate your support."
NeutralText == "Thank you for your feedback. They are noted and will be taken into consideration."
NegativeText == "We're sorry about your experience. A live agent is addressing the issue."
DefaultText == "Thank you for your feedback."
EmailDraft == "generate_email_draft: Apologize and address the following feedback"

response_map(sentiment) ==
    CASE sentiment = "positive" -> PositiveText
      [] sentiment = "neutral" -> NeutralText
      [] sentiment = "negative" -> NegativeText
      [] OTHER -> DefaultText

(* generate_response_message: the text f"{response}\nFeedback: {message}" as *)
(* its parts; translated_to is NULL when translate_text was not called       *)
generate_response_message(fb, language) ==
    LET response == IF fb.source # "sms" /\ fb.sentiment = "negative"
                    THEN EmailDraft
                    ELSE response_map(fb.sentiment)
    IN [response |-> response,
        translated_to |-> IF language # "english" THEN language ELSE NULL,
        feedback |-> fb.message]

(* the channel is chosen as send_message chooses it: by the customer's contacts *)
respond_to_feedback_by_contact(fb, customer, language, outcome) ==
    [reply |-> generate_response_message(fb, language),
     sms |-> IF Truthy(customer.phone_number)
             THEN <<sms_to(customer.phone_number)>> ELSE <<>>,
     mail |-> IF ~Truthy(customer.phone_number) THEN <<customer.email>> ELSE <<>>,
     replied |-> outcome, exc |-> NULL]

(* the error of the transport leaves respond_to_feedback *)
respond_to_feedback_uncaught(fb, customer, language, outcome) ==
    [reply |-> generate_response_message(fb, language),
     sms |-> IF fb.source = "sms" THEN <<sms_to(customer.phone_number)>> ELSE <<>>,
     mail |-> IF fb.source = "email" THEN <<customer.email>> ELSE <<>>,
     replied |-> outcome,
     exc |-> IF outcome = "ok" THEN NULL ELSE "TransportError"]

(* respond_to_feedback: transport errors are caught and logged; replied is *)
(* the answer of the transport                                             *)
respond_to_feedback(fb, customer, language, outcome) ==
    [reply |-> generate_response_message(fb, language),
     sms |-> IF fb.source = "sms" THEN <<sms_to(customer.phone_number)>> ELSE <<>>,
     mail |-> IF fb.source = "email" THEN <<customer.email>> ELSE <<>>,
     replied |-> outcome, exc |-> NULL]

(* suggest_meeting_time returns the text _generate_response produced *)
suggest_meeting_time == "str"

(* schedule_meeting: suggested_time + 3600 is evaluated for the request body *)
(* of events.create; for a text it raises TypeError.  Every error is caught, *)
(* logged and answered False.                                                *)
schedule_meeting(customer, suggested_time, outcome) ==
    IF suggested_time = "str"
    THEN [ok |-> FALSE, logged |-> "TypeError", events |-> 0, participants |-> <<>>]
    ELSE IF outcome = "ok"
    THEN [ok |-> TRUE, logged |-> NULL, events |-> 1,
          participants |-> <<customer.email>>]
    ELSE [ok |-> FALSE, logged |-> "NylasApiError", events |-> 0,
          participants |-> <<>>]

(* os.getenv("TEST_CALL_NUMBER") *)
TEST_CALL_NUMBER == "TEST_CALL_NUMBER"

(* escalate_to_agent: the voice call is placed outside any try block, *)
(* schedule_meeting catches every error.  escalation is "ok" or the   *)
(* error the step ended with.                                         *)
escalate_to_agent(fb, customer, outcome) ==
    IF fb.source = "sms"
    THEN [exc |-> IF outcome = "ok" THEN NULL ELSE "TwilioRestException",
          escalated |-> "call",
          escalation |-> IF outcome = "ok" THEN "ok" ELSE "TwilioRestException",
          calls |-> 1, call_to |-> <<TEST_CALL_NUMBER>>,
          meetings |-> 0, participants |-> <<>>]
    ELSE LET m == schedule_meeting(customer, suggest_meeting_time, outcome)
         IN [exc |-> NULL, escalated |-> "meeting",
             escalation |-> IF m.ok THEN "ok" ELSE m.logged,
             calls |-> 0, call_to |-> <<>>,
             meetings |-> m.events, participants |-> m.participants]

(* the write goes through instance.save(): post_save is sent once more *)
store_sentiment_save(table, pk, sentiment) ==
    [table |-> [table EXCEPT ![pk].sentiment = sentiment], signals |-> 1]

(* Feedback.objects.filter(pk=...).update(sentiment=...): the row changes, *)
(* the instance in memory does not, and no post_save signal is sent        *)
store_sentiment(table, pk, sentiment) ==
    [table |-> [table EXCEPT ![pk].sentiment = sentiment], signals |-> 0]

NoEscalation ==
    [exc |-> NULL, escalated |-> NULL, escalation |-> NULL, calls |-> 0,
     call_to |-> <<>>, meetings |-> 0, participants |-> <<>>]

NoReaction ==
    [exc |-> NULL, fired |-> 0, classified |-> 0, answer |-> NULL,
     sentiment |-> NULL, reply |-> NoReply, sms |-> <<>>, mail |-> <<>>,
     replied |-> NULL, escalated |-> NULL, escalation |-> NULL, calls |-> 0,
     call_to |-> <<>>, meetings |-> 0, participants |-> <<>>, steps |-> <<>>]

(* the handler entered again for each post_save of the write: created is *)
(* False then, its guard fails and it only logs                          *)
refired(signals) == [k \in 1..signals |-> "reaction"]

(* the customer is answered before the sentiment is stored *)
reaction_steps_reply_first(stored, replied, escalated) ==
    <<"reaction", "classify">> \o replied \o stored \o escalated

(* the statements of the handler in the order it runs them *)
reaction_steps(stored, replied, escalated) ==
    <<"reaction", "classify">> \o stored \o replied \o escalated

(* analyse_feedback_sentiment for the instance just saved as row pk; steps *)
(* lists what it did, in the order it did it                               *)
analyse_feedback_sentiment(table, pk, instance, customer, answer, language, outcome, escalation) ==
    IF ~Truthy(instance.message)
    THEN [table |-> table] @@ [NoReaction EXCEPT !.fired = 1, !.steps = <<"reaction">>]
    ELSE LET sentiment == sentiment_analysis(answer)
             w == store_sentiment(table, pk, sentiment)
             r == respond_to_feedback(instance, customer, language, outcome)
             e == IF r.exc = NULL /\ sentiment = "negative"
                  THEN escalate_to_agent(instance, customer, escalation)
                  ELSE NoEscalation
         IN [table |-> w.table, exc |-> IF r.exc # NULL THEN r.exc ELSE e.exc, fired |-> 1 + w.signals,
             classified |-> 1, answer |-> answer, sentiment |-> sentiment,
             reply |-> r.reply, sms |-> r.sms, mail |-> r.mail,
             replied |-> r.replied, escalated |-> e.escalated,
             escalation |-> e.escalation, calls |-> e.calls,
             call_to |-> e.call_to, meetings |-> e.meetings,
             participants |-> e.participants,
             steps |-> reaction_steps(
                         <<"store">> \o refired(w.signals), <<"reply">>,
                         IF e.escalated # NULL THEN <<"escalate">> ELSE <<>>)]

(* Feedback(...).save() / Feedback.objects.create: message is NOT NULL; the *)
(* insert sends post_save with created = True                               *)
feedback_save(table, customer_id, customer, message, source, answer, language, outcome, escalation) ==
    IF message = NULL
    THEN [table |-> table, fb |-> 0] @@ [NoReaction EXCEPT !.exc = "IntegrityError"]
    ELSE LET instance == [customer |-> customer_id, message |-> message,
                          source |-> source, sentiment |-> NULL]
             a == analyse_feedback_sentiment(
                    Append(table, instance), Len(table) + 1, instance, customer,
                    answer, language, outcome, escalation)
         IN [fb |-> 1] @@ [a EXCEPT !.steps = <<"persisted">> \o @]

(* the effects of a feedback_save on `last` *)
with_reaction(l, s) ==
    [f \in DOMAIN l |-> IF f \in DOMAIN NoReaction \ {"exc"} \/ f = "fb"
                        THEN s[f] ELSE l[f]]

ReplyOutcomes == {"ok", "error"}
Escalations == {"ok", "error"}

(* what the AI and the transports answer during one reaction; the outcome of *)
(* the escalation is only drawn when there is one                            *)
ReactionInputs ==
    {i \in [answer : SentimentAnswers, language : Languages,
            outcome : ReplyOutcomes, escalation : Escalations] :
        sentiment_analysis(i.answer) # "negative" => i.escalation = "ok"}
InputsFor(body) ==
    IF Truthy(body) THEN ReactionInputs
    ELSE {[answer |-> "neutral", language |-> "english", outcome |-> "ok",
           escalation |-> "ok"]}

(* ------------------------------------------------------------------ *)
(* Inbound SMS/voice webhook                                           *)
(* ------------------------------------------------------------------ *)
(* what the body of a webhook response consists of *)
FixedMessage == "fixed_message"
ExceptionText == "exception_text"
ServerErrorPage == "server_error_page"

(* an exception the view does not catch: the debug page shows it when DEBUG *)
(* is set, otherwise the framework answers with its fixed error page       *)
unhandled_response(dbg) == IF dbg THEN ExceptionText ELSE ServerErrorPage

Froms == {NULL, "+15551234567", "+15550000000"}
Bodies == {NULL, "", "Terrible service"}
WebhookEmails == {NULL, "ANN@X.IO"}

(* str(from_number).replace("+", "") *)
strip_plus(from_number) ==
    CASE from_number = "+15551234567" -> "15551234567"
      [] from_number = "+15550000000" -> "15550000000"
      [] OTHER -> from_number

lower_email(email) == IF email = "ANN@X.IO" THEN "ann@x.io" ELSE email

(* email__iexact *)
iexact(a, b) == a # NULL /\ lower_email(a) = lower_email(b)

(* Customer.objects.filter(...).first(): the lowest id that matches, 0 for None *)
first_customer(matching) ==
    IF matching = {} THEN 0
    ELSE CHOOSE c \in matching : \A d \in matching : c <= d

request(from, body, email) == [from |-> from, body |-> body, email |-> email]

TwilioWebhookView_post(valid, from, body, email) ==
    IF ~valid /\ ~debug
    THEN (* the log line reads from_number, email and body before they are bound *)
         /\ last' = [NoLast EXCEPT !.op = "twilio_webhook", !.signature = "invalid",
                                  !.exc = "UnboundLocalError", !.status = 500,
                                  !.response = unhandled_response(debug)]
         /\ UNCHANGED <<debug, customers, tasks, message_status, feedback,
                        nylas_webhooks, twilio, trackers>>
    ELSE LET from_number == IF Truthy(from) THEN strip_plus(from) ELSE from
             by_phone == {c \in 1..Len(customers) :
                             customers[c].phone_number = from_number}
             by_email == {c \in 1..Len(customers) : iexact(customers[c].email, email)}
             customer_id == IF Truthy(from_number) THEN first_customer(by_phone)
                            ELSE IF Truthy(email) THEN first_customer(by_email)
                            ELSE 0
             sig == IF valid THEN "valid" ELSE "invalid"
         IN IF customer_id = 0
            THEN /\ last' = [NoLast EXCEPT !.op = "twilio_webhook",
                                          !.request = request(from, body, email),
                                          !.signature = sig, !.status = 404,
                                          !.response = FixedMessage]
                 /\ UNCHANGED <<debug, customers, tasks, message_status, feedback,
                                nylas_webhooks, twilio, trackers>>
            ELSE \E i \in InputsFor(body) :
                 LET s == feedback_save(
                            feedback, customer_id, customers[customer_id], body,
                            IF Truthy(from_number) THEN "sms" ELSE "email",
                            i.answer, i.language, i.outcome, i.escalation)
                 IN /\ feedback' = s.table
                    /\ last' = with_reaction(
                                 [NoLast EXCEPT
                                    !.op = "twilio_webhook",
                                    !.request = request(from, body, email),
                                    !.signature = sig,
                                    !.customer = customer_id,
                                    !.exc = s.exc,
                                    !.response = IF s.exc = NULL THEN FixedMessage
                                                 ELSE unhandled_response(debug),
                                    !.status = IF s.exc = NULL THEN 200 ELSE 500],
                                 s)
                    /\ UNCHANGED <<debug, customers, tasks, message_status,
                                   nylas_webhooks, twilio, trackers>>

(* ------------------------------------------------------------------ *)
(* Inbound email-thread-reply webhook                                  *)
(* ------------------------------------------------------------------ *)
NYLAS_CLIENT_SECRET == [kind |-> "client", n |-> 0]
webhook_secret(n) == [kind |-> "webhook", n |-> n]
WrongSecret == [kind |-> "wrong", n |-> 0]
NoSecret == [kind |-> "none", n |-> 0]
Secrets == {NYLAS_CLIENT_SECRET, WrongSecret} \cup {webhook_secret(n) : n \in 1..MaxWebhooks}

(* hmac.new(key, msg, sha256).hexdigest(): equal exactly for equal key and body *)
hmac_hexdigest(key, payload) == <<key, payload>>

UnknownRoot == nylas_id(0)
event(json, type, data, root) ==
    [json |-> json, type |-> type, data |-> data, root_message_id |-> root]
Payloads ==
    {event(FALSE, NULL, FALSE, UnknownRoot),
     event(TRUE, "message.created", TRUE, nylas_id(2)),
     event(TRUE, "thread.replied", FALSE, UnknownRoot),
     event(TRUE, "thread.replied", TRUE, UnknownRoot),
     event(TRUE, "thread.replied", TRUE, nylas_id(2))}

Registered == {k \in 1..Len(nylas_webhooks) : nylas_webhooks[k].trigger_type = "thread.replied"}

(* get_secret_key: objects.get raises on several registrations *)
get_secret_key ==
    IF Registered = {}
    THEN [exc |-> NULL, key |-> NYLAS_CLIENT_SECRET]
    ELSE IF Cardinality(Registered) = 1
    THEN [exc |-> NULL, key |-> nylas_webhooks[CHOOSE k \in Registered : TRUE].secret_key]
    ELSE [exc |-> "MultipleObjectsReturned", key |-> NoSecret]

(* validate_signature: compare_digest rejects None with a TypeError *)
validate_signature(signature, secret_key, payload) ==
    IF signature = <<>>
    THEN [exc |-> "TypeError", ok |-> FALSE]
    ELSE [exc |-> NULL, ok |-> signature = hmac_hexdigest(secret_key, payload)]

(* the registered secrets a sender may legitimately sign with *)
AcceptedSecrets ==
    IF Registered = {} THEN {NYLAS_CLIENT_SECRET}
    ELSE {nylas_webhooks[k].secret_key : k \in Registered}

nylas_response(signature, payload, status, exc) ==
    /\ last' = [NoLast EXCEPT !.op = "nylas_webhook", !.signature = signature,
                             !.event = payload,
                             !.response = IF status = 500 THEN ExceptionText
                                          ELSE FixedMessage,
                             !.status = status, !.exc = exc]
    /\ UNCHANGED <<debug, customers, tasks, message_status, feedback, nylas_webhooks, twilio, trackers>>

(* handle_thread_replied with process_customer_reply: every error after the *)
(* two ids are read is logged and swallowed                                 *)
handle_thread_replied(signature, payload) ==
    LET sent == {k \in 1..Len(message_status) :
                    message_status[k].message_sid = payload.root_message_id}
    IN IF sent = {}
       THEN nylas_response(signature, payload, 200, NULL)
       ELSE LET customer_id == message_status[CHOOSE k \in sent : TRUE].customer
                fetched(l) == [l EXCEPT !.fetched = 1]
            IN \/ (* messages.find fails *)
                  /\ last' = fetched([NoLast EXCEPT !.op = "nylas_webhook", !.event = payload,
                                                   !.signature = signature,
                                                   !.customer = customer_id,
                                                   !.response = FixedMessage,
                                                   !.status = 200])
                  /\ UNCHANGED <<debug, customers, tasks, message_status, feedback,
                                 nylas_webhooks, twilio, trackers>>
               \/ \E body \in Bodies : \E i \in InputsFor(body) :
                  LET s == feedback_save(feedback, customer_id, customers[customer_id],
                                         body, "email", i.answer, i.language,
                                         i.outcome, i.escalation)
                  IN /\ feedback' = s.table
                     /\ last' = with_reaction(
                                  fetched([NoLast EXCEPT !.op = "nylas_webhook", !.event = payload,
                                                        !.signature = signature,
                                                        !.customer = customer_id,
                                                        !.response = FixedMessage,
                                                        !.status = 200]),
                                  s)
                     /\ UNCHANGED <<debug, customers, tasks, message_status,
                                    nylas_webhooks, twilio, trackers>>

NylasWebhookView_post(signed_with, payload) ==
    LET signature == IF signed_with = NoSecret THEN <<>>
                     ELSE hmac_hexdigest(signed_with, payload)
        sig == IF signed_with = NoSecret THEN "missing"
               ELSE IF signed_with \in AcceptedSecrets THEN "match" ELSE "mismatch"
        secret == get_secret_key
        v == validate_signature(signature, secret.key, payload)
    IN IF secret.exc # NULL THEN nylas_response(sig, payload, 500, secret.exc)
       ELSE IF v.exc # NULL THEN nylas_response(sig, payload, 500, v.exc)
       ELSE IF ~v.ok THEN nylas_response(sig, payload, 403, NULL)
       ELSE IF ~payload.json THEN nylas_response(sig, payload, 400, "JSONDecodeError")
       ELSE IF payload.type # "thread.replied" THEN nylas_response(sig, payload, 200, NULL)
       ELSE IF ~payload.data THEN nylas_response(sig, payload, 500, "KeyError")
       ELSE handle_thread_replied(sig, payload)

(* Command.handle of create_nylas_webhook: a row per successful run *)
create_nylas_webhook(outcome) ==
    /\ Len(nylas_webhooks) < MaxWebhooks
    /\ nylas_webhooks' =
          IF outcome = "ok"
          THEN Append(nylas_webhooks,
                      [webhook_id |-> Len(nylas_webhooks) + 1,
                       secret_key |-> webhook_secret(Len(nylas_webhooks) + 1),
                       trigger_type |-> "thread.replied"])
          ELSE nylas_webhooks
    /\ last' = [NoLast EXCEPT !.op = "create_nylas_webhook",
                             !.exc = IF outcome = "ok" THEN NULL ELSE "NylasApiError"]
    /\ UNCHANGED <<debug, customers, tasks, message_status, feedback, twilio, trackers>>

(* ------------------------------------------------------------------ *)
(* Specification of feedback ingestion                                 *)
(* ------------------------------------------------------------------ *)
(* the store after an upload of two customers and one dispatch to each *)
FeedbackCsv == <<csv_row(Phone1, Email1, "Ann", "Doe"), csv_row(NULL, Email1, "Bob", "Doe")>>

InitFeedback ==
    /\ debug \in BOOLEAN
    /\ \E sms_outcome \in SmsOutcomes, mail_outcome \in MailOutcomes :
          LET u == upload_rows(
                     FeedbackCsv, 1,
                     validate_and_sanitize_message_format(TemplateAmp, CSV_REQUIRED_HEADERS),
                     "now", TRUE, <<>>, <<>>, 0)
              s1 == send_message(1, u.customers[1], <<>>, sms_outcome, mail_outcome, 1)
              s2 == send_message(2, u.customers[2], s1.table, sms_outcome, mail_outcome, 2)
          IN /\ customers = u.customers
             /\ tasks = <<task_accepted(task_after(u.tasks[1], s1.exc), s1), task_accepted(task_after(u.tasks[2], s2.exc), s2)>>
             /\ message_status = s2.table
             /\ twilio = twilio_after(twilio_after(<<>>, s1, 1), s2, 2)
    /\ feedback = <<>>
    /\ nylas_webhooks = <<>>
    /\ trackers = NoTrackers
    /\ last = NoLast

TwilioWebhook ==
    /\ Len(feedback) < MaxFeedback
    /\ \E valid \in BOOLEAN, from \in Froms, body \in Bodies, email \in WebhookEmails :
          TwilioWebhookView_post(valid, from, body, email)

NylasWebhook ==
    /\ Len(feedback) < MaxFeedback
    /\ \E signed_with \in Secrets \cup {NoSecret}, payload \in Payloads :
          NylasWebhookView_post(signed_with, payload)

CreateNylasWebhook == \E outcome \in {"ok", "error"} : create_nylas_webhook(outcome)

NextFeedback == TwilioWebhook \/ NylasWebhook \/ CreateNylasWebhook

SpecFeedback == InitFeedback /\ [][NextFeedback]_vars

(* ------------------------------------------------------------------ *)
(* Dispatch: rendering and retries                                     *)
(* ------------------------------------------------------------------ *)
(* C21: rendering replaces every placeholder of a known customer field by *)
(* the field's value, the empty string for a missing (null) value, leaves *)
(* no placeholder of a known field in the output and never raises.        *)
C21_RenderNeverRaises ==
    (Dispatched /\ last.channel # "none") =>
        LET customer == customers[last.customer]
            r == parse_message(customer.message_format, customer)
            known == {Placeholder(CSV_REQUIRED_HEADERS[h]) :
                         h \in 1..Len(CSV_REQUIRED_HEADERS)}
        IN /\ r.exc = NULL
           /\ last.exc # "TypeError"
           /\ Len(r.text) = Len(customer.message_format)
           /\ \A k \in 1..Len(r.text) :
                 /\ r.text[k] \notin known
                 /\ customer.message_format[k] \notin known =>
                       r.text[k] = customer.message_format[k]
                 /\ \A h \in 1..Len(CSV_REQUIRED_HEADERS) :
                       customer.message_format[k] = Placeholder(CSV_REQUIRED_HEADERS[h]) =>
                          r.text[k] = (IF customer[CSV_REQUIRED_HEADERS[h]] = NULL THEN ""
                                       ELSE customer[CSV_REQUIRED_HEADERS[h]])

(* C26: within one dispatch task, all its retries included, the SMS    *)
(* transport accepts at most one message for the customer.             *)
C26_AtMostOneSmsPerTask ==
    \A t \in 1..Len(tasks) : tasks[t].accepted <= 1

(* C28: a failure of the email transport during dispatch is never retried: *)
(* send_message records status failed and returns, the task completes on   *)
(* its first execution.                                                    *)
C28_EmailFailureNotRetried ==
    (Dispatched /\ last.channel = "email" /\ last.transport \in MailOutcomes \ {"sent"}) =>
        /\ last.exc = NULL
        /\ last.state = "SUCCESS"
        /\ last.retries = 0
        /\ last.created = 1
        /\ \E k \in RecordsOf(last.customer) : message_status[k].status = "failed"

(* ------------------------------------------------------------------ *)
(* The admin form of Customer                                          *)
(* ------------------------------------------------------------------ *)
(* what the fields of the change form post *)
FormPhones == {"", Phone1, "12ab"}
FormEmails == {"", Email1}
FormNames == {"", "Ann"}

(* the empty value of a form field whose column is nullable is None *)
to_python(value) == IF value = "" THEN NULL ELSE value

(* a model without clean(): every instance passes *)
Customer_clean_skipped(instance) == TRUE

(* Customer.clean: raises when email and phone number are both empty *)
Customer_clean(instance) == Truthy(instance.email) \/ Truthy(instance.phone_number)

(* CustomerAdminForm.is_valid: the fields, the form's clean (a message      *)
(* format is selected), then the instance's full_clean with Customer.clean, *)
(* then the unique constraint against the other rows                        *)
CustomerAdminForm_is_valid(table, pk, instance) ==
    /\ instance.phone_number # NULL => IsNumeric(instance.phone_number)
    /\ Truthy(instance.first_name)
    /\ instance.message_format # <<>>
    /\ Customer_clean(instance)
    /\ ~is_duplicate([k \in 1..Len(table) |->
                         IF k = pk THEN [table[k] EXCEPT !.phone_number = NULL]
                         ELSE table[k]],
                     instance, instance.message_format)

(* CustomerAdmin add view (pk = 0) and change view: save_model stores the *)
(* instance of a valid form; an invalid form is shown again               *)
CustomerAdmin_save(pk, phone_number, email, first_name, message_format) ==
    LET instance == [phone_number |-> to_python(phone_number),
                     email |-> to_python(email),
                     first_name |-> first_name,
                     last_name |-> IF pk = 0 THEN NULL ELSE customers[pk].last_name,
                     message_format |-> message_format]
        valid == CustomerAdminForm_is_valid(customers, pk, instance)
    IN /\ pk = 0 => Len(customers) < MaxCustomers
       /\ customers' = IF ~valid THEN customers
                       ELSE IF pk = 0 THEN Append(customers, instance)
                       ELSE [customers EXCEPT ![pk] = instance]
       /\ last' = [NoLast EXCEPT !.op = "admin_save",
                                !.customer = IF pk = 0 /\ valid THEN Len(customers) + 1
                                             ELSE pk,
                                !.created = IF pk = 0 /\ valid THEN 1 ELSE 0,
                                !.status = IF valid THEN 302 ELSE 200]
       /\ UNCHANGED <<debug, tasks, message_status, feedback, nylas_webhooks, twilio, trackers>>

(* the message formats the form offers: those stored, or none selected (the *)
(* empty text)                                                              *)
FormMessageFormats ==
    {<<>>, validate_and_sanitize_message_format(TemplateAmp, CSV_REQUIRED_HEADERS)}
        \cup {customers[c].message_format : c \in 1..Len(customers)}

AdminSave ==
    \E pk \in 0..Len(customers), phone_number \in FormPhones, email \in FormEmails,
       first_name \in FormNames, message_format \in FormMessageFormats :
        CustomerAdmin_save(pk, phone_number, email, first_name, message_format)

NextCustomers == Upload \/ AdminSave

SpecCustomers == Init /\ [][NextCustomers]_vars

(* C24: in every reachable state every persisted Customer has a non-empty *)
(* phone number or a non-empty email, whether the upload or the admin     *)
(* form created or changed it                                             *)
C24_ContactInvariant ==
    \A c \in 1..Len(customers) :
        Truthy(customers[c].phone_number) \/ Truthy(customers[c].email)

C24_Witness ==
    /\ last.op = "admin_save"
    /\ last.status = 302
    /\ last.created = 0
    /\ customers[last.customer].phone_number = NULL
    /\ customers[last.customer].email = Email1
    /\ \E t \in 1..Len(tasks) : tasks[t].customer = last.customer

(* ------------------------------------------------------------------ *)
(* Upload: the tasks it enqueues                                       *)
(* ------------------------------------------------------------------ *)
Uploaded == last.op = "upload" /\ last.eta # NULL
PersistedByUpload == (Len(customers) - last.created + 1)..Len(customers)
EnqueuedByUpload == (Len(tasks) - last.enqueued + 1)..Len(tasks)

ReplyFailed == last.fb = 1 /\ last.replied = "error"

(* the same request with a reply the transport accepted *)
WithReplySent ==
    LET row == feedback[Len(feedback)]
    IN feedback_save(
          SubSeq(feedback, 1, Len(feedback) - 1), row.customer,
          customers[row.customer], row.message, row.source, last.answer,
          IF last.reply.translated_to = NULL THEN "english"
          ELSE last.reply.translated_to,
          "ok",
          IF last.escalation = "TwilioRestException" THEN "error" ELSE "ok")

(* C29: a failure while sending the automated reply is contained in       *)
(* respond_to_feedback: the Feedback row and its stored sentiment remain, *)
(* escalation for negative sentiment is still attempted afterwards, and   *)
(* the webhook answers as it does when the reply was sent                 *)
C29_ReplyFailureContained ==
    ReplyFailed =>
        LET row == feedback[Len(feedback)]
        IN /\ row.sentiment = last.sentiment
           /\ row.sentiment = sentiment_analysis(last.answer)
           /\ (row.sentiment = "negative") <=> (last.escalated # NULL)
           /\ (row.sentiment = "negative") =>
                 \E i, j \in 1..Len(last.steps) :
                    i < j /\ last.steps[i] = "reply" /\ last.steps[j] = "escalate"
           /\ last.escalated = WithReplySent.escalated
           /\ last.escalation = WithReplySent.escalation
           /\ last.exc = (IF last.op = "twilio_webhook" THEN WithReplySent.exc ELSE NULL)
           /\ last.status = (IF last.exc = NULL THEN 200 ELSE 500)
           /\ last.exc # "TransportError"

C29_Witness ==
    /\ ReplyFailed
    /\ last.op = "twilio_webhook"
    /\ feedback[Len(feedback)].sentiment = "negative"
    /\ last.escalated = "call"
    /\ last.escalation = "ok"
    /\ last.status = 200

(* ------------------------------------------------------------------ *)
(* Webhook responses                                                   *)
(* ------------------------------------------------------------------ *)
Webhooks == {"twilio_webhook", "nylas_webhook"}

(* C22: no response of the inbound webhooks carries raw exception text; a *)
(* failure is reported through the status 403, 404 or 400 with a fixed    *)
(* message, also for a missing signature header or a missing event field  *)
C22_NoExceptionText ==
    last.op \in Webhooks =>
        /\ last.response = FixedMessage
        /\ last.status \in {200, 403, 404, 400}

(* C30: after any number of provisioning runs a POST signed with the secret *)
(* of a stored registration, or with the client secret when there is none,  *)
(* is answered 200                                                          *)
C30_SignedPostAnswered200 ==
    (/\ last.op = "nylas_webhook"
     /\ last.signature = "match"
     /\ last.event.json
     /\ (last.event.type = "thread.replied" => last.event.data))
        => last.status = 200

(* ------------------------------------------------------------------ *)
(* Feedback ingestion: properties                                      *)
(* ------------------------------------------------------------------ *)
FeedbackCreated == last.fb = 1
CreatedRow == feedback[Len(feedback)]
NothingTriggered ==
    /\ last.fb = 0 /\ last.fired = 0 /\ last.classified = 0
    /\ last.reply = NoReply /\ last.sms = <<>> /\ last.mail = <<>>
    /\ last.calls = 0 /\ last.meetings = 0 /\ last.fetched = 0

(* C7: an inbound SMS/voice webhook request with an invalid signature,    *)
(* outside development mode, is answered 403 and mutates nothing: no      *)
(* Feedback row, no classification, no reply, no escalation.              *)
C7_InvalidSignatureForbidden ==
    (last.op = "twilio_webhook" /\ last.signature = "invalid" /\ ~debug) =>
        (last.status = 403 /\ NothingTriggered)

(* C8: an email-thread-reply webhook POST whose signature header is       *)
(* missing or differs from the HMAC of the body under the webhook secret  *)
(* is answered 403 and mutates nothing: no message fetch, no Feedback row.*)
C8_BadSignatureForbidden ==
    (last.op = "nylas_webhook" /\ last.signature \in {"missing", "mismatch"}) =>
        (last.status = 403 /\ NothingTriggered)

(* C9 as stated: for every Feedback record created, with any message body, *)
(* the classifier is invoked exactly once and the reaction is not fired    *)
(* again by the write of the sentiment.                                    *)
C9_ClassifiedExactlyOnce ==
    FeedbackCreated => (last.classified = 1 /\ last.fired = 1)

(* C9 as the handler behaves: for every Feedback record created the on-    *)
(* feedback-created reaction runs exactly once; it invokes the classifier  *)
(* exactly once when the message is non-empty and not at all when it is    *)
(* empty; the stored sentiment is that one classification; there is at     *)
(* most one reply and at most one escalation for the record.               *)
C9_ClassifiedOncePerNonEmptyFeedback ==
    FeedbackCreated =>
        /\ last.fired = 1
        /\ last.classified = (IF CreatedRow.message # "" THEN 1 ELSE 0)
        /\ CreatedRow.sentiment = last.sentiment
        /\ (last.classified = 0) =>
              (last.sentiment = NULL /\ last.reply = NoReply)
        /\ Len(last.sms) + Len(last.mail) = last.classified
        /\ last.calls + last.meetings <= last.classified

C9_Witness ==
    /\ FeedbackCreated
    /\ last.op = "nylas_webhook"
    /\ last.classified = 1
    /\ CreatedRow.sentiment = "negative"
    /\ last.escalated = "meeting"

(* C10: the reply text is determined by the classified sentiment and the  *)
(* source: positive and neutral get their acknowledgement texts, negative *)
(* from sms the fixed apology, negative from email the drafted apology;   *)
(* so the reply to a negative Feedback differs from a positive one's.     *)
C10_ReplyBySentimentAndSource ==
    (FeedbackCreated /\ last.classified = 1) =>
        last.reply.response =
            CASE CreatedRow.sentiment = "positive" -> PositiveText
              [] CreatedRow.sentiment = "neutral" -> NeutralText
              [] CreatedRow.sentiment = "negative" /\ CreatedRow.source = "sms" ->
                    NegativeText
              [] OTHER -> EmailDraft

Classified == FeedbackCreated /\ last.classified = 1

(* C11: escalation happens exactly for a Feedback classified negative: from *)
(* sms one voice call to the escalation contact and no calendar event, from *)
(* email a calendar event with the customer as participant and no call; for *)
(* positive or neutral sentiment neither.                                   *)
C11_EscalationIffNegative ==
    Classified =>
        LET customer == customers[CreatedRow.customer]
        IN /\ (CreatedRow.sentiment = "negative" /\ CreatedRow.source = "sms") =>
                 /\ last.calls = 1 /\ last.call_to = <<TEST_CALL_NUMBER>>
                 /\ last.meetings = 0
           /\ (CreatedRow.sentiment = "negative" /\ CreatedRow.source = "email") =>
                 /\ last.meetings = 1 /\ last.participants = <<customer.email>>
                 /\ last.calls = 0
           /\ (CreatedRow.sentiment # "negative") =>
                 (last.calls = 0 /\ last.meetings = 0 /\ last.escalated = NULL)

(* C12: a failure of the escalation step is only logged: the webhook still *)
(* answers with its success response and the Feedback row, its sentiment   *)
(* and the reply already sent are unaffected.                              *)
C12_EscalationFailureOnlyLogged ==
    (Classified /\ last.escalated # NULL /\ last.escalation # "ok") =>
        /\ last.status = 200
        /\ last.exc = NULL
        /\ CreatedRow.sentiment = "negative"
        /\ Len(last.sms) + Len(last.mail) = 1

TwilioVerified == last.op = "twilio_webhook" /\ (last.signature = "valid" \/ debug)

MatchesCustomer(req) ==
    \E c \in 1..Len(customers) :
        \/ (req.from # NULL /\ customers[c].phone_number = strip_plus(req.from))
        \/ (req.email # NULL /\ iexact(customers[c].email, req.email))

(* C13: a verified SMS/voice webhook request creates a Feedback row with   *)
(* message = Body and the channel's source tag if and only if a customer's *)
(* phone equals From without '+' or a customer's email equals Email case-  *)
(* insensitively; with no match it answers 404 and creates no row.         *)
C13_FeedbackIffCustomerMatches ==
    TwilioVerified =>
        /\ FeedbackCreated <=> MatchesCustomer(last.request)
        /\ FeedbackCreated => CreatedRow.message = last.request.body
        /\ ~MatchesCustomer(last.request) => (last.status = 404 /\ last.fb = 0)

RecordsWithRoot(root) ==
    {k \in 1..Len(message_status) : message_status[k].message_sid = root}

(* C14: a correctly signed email-thread-reply POST creates a Feedback row  *)
(* with source email if and only if its type is thread.replied and a       *)
(* DeliveryRecord has the event's root message id as provider id, and the  *)
(* row belongs to that record's customer; another type or an unknown root  *)
(* id creates no row and is answered 200.                                  *)
C14_ReplyAttributedByRootId ==
    (last.op = "nylas_webhook" /\ last.signature = "match") =>
        LET known == last.event.json /\ last.event.data
                     /\ last.event.type = "thread.replied"
                     /\ RecordsWithRoot(last.event.root_message_id) # {}
        IN /\ FeedbackCreated <=> known
           /\ FeedbackCreated =>
                 /\ CreatedRow.source = "email"
                 /\ \E k \in RecordsWithRoot(last.event.root_message_id) :
                       message_status[k].customer = CreatedRow.customer
           /\ (last.event.json /\ last.event.data /\ ~known) =>
                 (last.fb = 0 /\ last.status = 200)

(* C18: the sentiment analysis of a feedback text always returns one of   *)
(* positive, negative, neutral and never raises: an answer outside this   *)
(* set, the fallback of a failed AI call included, is coerced to neutral. *)
C18_ClassifierClosedSet ==
    Classified =>
        /\ last.sentiment \in {"positive", "negative", "neutral"}
        /\ last.sentiment =
              CASE last.answer = "positive" -> "positive"
                [] last.answer = "Negative" -> "negative"
                [] OTHER -> "neutral"
        /\ CreatedRow.sentiment = last.sentiment
        /\ \E i \in 1..Len(last.steps) : last.steps[i] = "store"

C18_Witness ==
    /\ Classified
    /\ last.answer = GenericResponse
    /\ CreatedRow.sentiment = "neutral"

(* C19: the reaction to a Feedback record runs its steps strictly in the *)
(* order row persisted, classifier invoked, sentiment stored, reply sent, *)
(* escalation (only if negative), and no second reaction for the record  *)
(* runs between or after them.                                           *)
C19_ReactionInOrder ==
    FeedbackCreated =>
        LET in_order == <<"persisted", "reaction", "classify", "store", "reply">>
        IN /\ last.steps \in {<<"persisted", "reaction">>, in_order,
                              in_order \o <<"escalate">>}
           /\ (last.steps = in_order \o <<"escalate">>) <=>
                 (Classified /\ last.sentiment = "negative")
           /\ (last.steps = <<"persisted", "reaction">>) <=> (last.classified = 0)

C19_Witness ==
    /\ FeedbackCreated
    /\ last.op = "twilio_webhook"
    /\ Len(last.steps) = 6
    /\ last.escalated = "call"

(* C20: the automated reply goes out on the channel the feedback arrived *)
(* on: for source sms one SMS to the customer's phone and no email, for  *)
(* source email one email to the customer's address and no SMS.          *)
C20_ReplyOnSameChannel ==
    Classified =>
        LET customer == customers[CreatedRow.customer]
        IN /\ CreatedRow.source = "sms" =>
                 (last.sms = <<"+" \o customer.phone_number>> /\ last.mail = <<>>)
           /\ CreatedRow.source = "email" =>
                 (last.mail = <<customer.email>> /\ last.sms = <<>>)
           /\ CreatedRow.source \in {"sms", "email"}

C20_Witness ==
    /\ Classified
    /\ CreatedRow.source = "email"
    /\ Truthy(customers[CreatedRow.customer].phone_number)
    /\ last.mail = <<Email1>>

(* ------------------------------------------------------------------ *)
(* Delivery status tracker                                             *)
(* ------------------------------------------------------------------ *)
ProviderStatuses == {"queued", "sending", "sent", "delivered", "undelivered", "failed"}

(* the scan selects every row, whatever its status *)
tracked_statuses_any == ProviderStatuses

(* the scan also selects the rows that failed *)
tracked_statuses_failed == {"queued", "sending", "sent", "failed"}

(* status__in of the scan *)
tracked_statuses == {"queued", "sending", "sent"}

(* client.messages(sid).fetch(): known is whether the provider has the message *)
fetch(provider, message_sid) ==
    IF message_sid.kind = "SM" /\ message_sid.n \in DOMAIN provider
    THEN [known |-> TRUE, status |-> provider[message_sid.n]]
    ELSE [known |-> FALSE, status |-> NULL]

(* a save that resets a row already carrying the reported status *)
message_status_save_toggle(row, status) ==
    [row EXCEPT !.status = IF row.status = status THEN "queued" ELSE status]

(* message_status.status = message.status; message_status.save() *)
message_status_save(row, status) == [row EXCEPT !.status = status]

(* the loop ends at the first record that fails *)
after_failure_abort(rest) == <<>>

(* the except clause is inside the loop: the scan goes on with the rest *)
after_failure(rest) == rest

(* the for loop of check_message_delivery_status over the selected rows ks; *)
(* fail holds the rows whose fetch or save raises                           *)
RECURSIVE scan(_, _, _, _)
scan(table, ks, provider, fail) ==
    IF ks = <<>>
    THEN [table |-> table, queried |-> <<>>, failed |-> {}]
    ELSE LET k == Head(ks)
             m == fetch(provider, table[k].message_sid)
         IN IF k \in fail \/ ~m.known
            THEN LET r == scan(table, after_failure(Tail(ks)), provider, fail)
                 IN [r EXCEPT !.queried = <<k>> \o @, !.failed = {k} \cup @]
            ELSE LET r == scan([table EXCEPT ![k] = message_status_save(@, m.status)],
                               Tail(ks), provider, fail)
                 IN [r EXCEPT !.queried = <<k>> \o @]

(* the rows of a set of row numbers, in the order of their primary key *)
RECURSIVE in_pk_order(_)
in_pk_order(ks) ==
    IF ks = {} THEN <<>>
    ELSE LET k == CHOOSE k \in ks : \A j \in ks : k <= j
         IN <<k>> \o in_pk_order(ks \ {k})

check_message_delivery_status(fail) ==
    LET selected == {k \in 1..Len(message_status) :
                        message_status[k].status \in tracked_statuses}
        r == scan(message_status, in_pk_order(selected), twilio, fail)
    IN /\ fail \subseteq selected
       /\ message_status' = r.table
       /\ last' = [NoLast EXCEPT !.op = "tracker", !.selected = selected,
                                !.queried = r.queried, !.failed = r.failed,
                                !.before = message_status,
                                !.prev = last.op, !.prev_failed = last.failed]
       /\ UNCHANGED <<debug, customers, tasks, feedback, nylas_webhooks, twilio, trackers>>

(* the provider's own progress of a message it accepted *)
provider_next(status) ==
    CASE status = "queued" -> {"sending", "failed"}
      [] status = "sending" -> {"sent", "failed"}
      [] status = "sent" -> {"delivered", "undelivered"}
      [] OTHER -> {}

twilio_progress(n) ==
    /\ \E status \in provider_next(twilio[n]) :
          twilio' = [twilio EXCEPT ![n] = status]
    /\ last' = [NoLast EXCEPT !.op = "twilio_progress"]
    /\ UNCHANGED <<debug, customers, tasks, message_status, feedback, nylas_webhooks, trackers>>

(* the store after an upload of three customers and one dispatch to each *)
Phone2 == "15550000000"
TrackerCsv ==
    <<csv_row(Phone1, NULL, "Ann", "Doe"), csv_row(Phone2, Email1, "Bob", "Doe"),
      csv_row(NULL, Email1, "Cy", "Doe")>>

InitTracker ==
    /\ debug = FALSE
    /\ \E o1 \in SmsOutcomes, o2 \in SmsOutcomes, mail_outcome \in MailOutcomes :
          LET u == upload_rows(
                     TrackerCsv, 1,
                     validate_and_sanitize_message_format(TemplateAmp, CSV_REQUIRED_HEADERS),
                     "now", TRUE, <<>>, <<>>, 0)
              s1 == send_message(1, u.customers[1], <<>>, o1, mail_outcome, 1)
              s2 == send_message(2, u.customers[2], s1.table, o2, mail_outcome, 2)
              s3 == send_message(3, u.customers[3], s2.table, o2, mail_outcome, 3)
          IN /\ customers = u.customers
             /\ tasks = <<task_accepted(task_after(u.tasks[1], s1.exc), s1), task_accepted(task_after(u.tasks[2], s2.exc), s2),
                          task_accepted(task_after(u.tasks[3], s3.exc), s3)>>
             /\ message_status = s3.table
             /\ twilio = twilio_after(twilio_after(twilio_after(<<>>, s1, 1), s2, 2), s3, 3)
    /\ feedback = <<>>
    /\ nylas_webhooks = <<>>
    /\ trackers = NoTrackers
    /\ last = NoLast

Tracker == \E fail \in SUBSET (1..Len(message_status)) : check_message_delivery_status(fail)

TwilioProgress == \E n \in DOMAIN twilio : twilio_progress(n)

NextTracker == Tracker \/ TwilioProgress

SpecTracker == InitTracker /\ [][NextTracker]_vars

(* ------------------------------------------------------------------ *)
(* Delivery status tracker: properties                                 *)
(* ------------------------------------------------------------------ *)
Tracked == last.op = "tracker"
Range(seq) == {seq[i] : i \in 1..Len(seq)}
Reported(k) == twilio[last.before[k].message_sid.n]

(* C15: one run queries the provider for exactly the records whose status *)
(* is queued, sending or sent at scan time, each once, and sets each such *)
(* record's status to the status the provider reported for it; records of *)
(* any other status are neither queried nor modified; no record is        *)
(* created or deleted.                                                    *)
C15_TrackerFrame ==
    Tracked =>
        LET nonterminal == {k \in 1..Len(last.before) :
                               last.before[k].status \in {"queued", "sending", "sent"}}
        IN /\ Range(last.queried) = nonterminal
           /\ Len(last.queried) = Cardinality(nonterminal)
           /\ Len(message_status) = Len(last.before)
           /\ \A k \in 1..Len(last.before) :
                 /\ k \notin nonterminal => message_status[k] = last.before[k]
                 /\ k \in nonterminal \ last.failed =>
                       message_status[k] = [last.before[k] EXCEPT !.status = Reported(k)]

C15_Witness ==
    /\ Tracked
    /\ \E k \in Range(last.queried) : message_status[k].status = "delivered"
    /\ \E k \in 1..Len(last.before) :
          last.before[k].status = "delivered" /\ last.before[k].message_sid.kind = "SM"
    /\ \E k \in 1..Len(last.before) : last.before[k].message_sid.kind # "SM"

(* C16: a failure while fetching or saving one record leaves that record *)
(* unchanged and does not abort the scan: every other selected record is *)
(* still queried and updated, and the run ends normally.                 *)
C16_FailureSkipsOneRecord ==
    Tracked =>
        /\ last.exc = NULL
        /\ \A k \in last.failed : message_status[k] = last.before[k]
        /\ \A k \in last.selected \ last.failed :
              /\ k \in Range(last.queried)
              /\ message_status[k].status = Reported(k)

C16_Witness ==
    /\ Tracked
    /\ \E f \in last.failed, k \in last.selected \ last.failed :
          /\ f < k
          /\ message_status[k].status # last.before[k].status

tracker_start(w) ==
    LET selected == {k \in 1..Len(message_status) :
                        message_status[k].status \in tracked_statuses}
    IN /\ trackers[w].pc = "idle"
       /\ selected # {}
       /\ trackers' = [trackers EXCEPT ![w] = [IdleTracker EXCEPT
                          !.pc = "fetch", !.todo = in_pk_order(selected)]]
       /\ last' = [NoLast EXCEPT !.op = "tracker_start", !.worker = w,
                                !.selected = selected]
       /\ UNCHANGED <<debug, customers, tasks, message_status, feedback,
                      nylas_webhooks, twilio>>

(* the loop goes on with the next row, or the run ends *)
tracker_next(worker) ==
    IF Len(worker.todo) > 1
    THEN [IdleTracker EXCEPT !.pc = "fetch", !.todo = Tail(worker.todo)]
    ELSE IdleTracker

(* client.messages(sid).fetch() for the row at the head of the loop; an *)
(* error is logged and the loop goes on                                 *)
tracker_fetch(w, raises) ==
    LET worker == trackers[w]
        k == Head(worker.todo)
        m == fetch(twilio, message_status[k].message_sid)
    IN /\ worker.pc = "fetch"
       /\ trackers' = [trackers EXCEPT ![w] =
                          IF raises \/ ~m.known THEN tracker_next(worker)
                          ELSE [worker EXCEPT !.pc = "save", !.held = m.status,
                                              !.base = message_status[k].status]]
       /\ last' = [NoLast EXCEPT !.op = "tracker_fetch", !.worker = w, !.row = k]
       /\ UNCHANGED <<debug, customers, tasks, message_status, feedback,
                      nylas_webhooks, twilio>>

(* message_status.status = message.status; message_status.save(): the row *)
(* is written whatever it holds by now                                    *)
tracker_save(w) ==
    LET worker == trackers[w]
        k == Head(worker.todo)
    IN /\ worker.pc = "save"
       /\ message_status' = [message_status EXCEPT
                                ![k] = message_status_save(@, worker.held)]
       /\ trackers' = [trackers EXCEPT ![w] = tracker_next(worker)]
       /\ last' = [NoLast EXCEPT !.op = "tracker_save", !.worker = w, !.row = k,
                                !.written = worker.held, !.base = worker.base,
                                !.prior = message_status[k].status]
       /\ UNCHANGED <<debug, customers, tasks, feedback, nylas_webhooks, twilio>>

TrackerStart == \E w \in 1..MaxTrackers : tracker_start(w)
TrackerFetch == \E w \in 1..MaxTrackers, raises \in BOOLEAN : tracker_fetch(w, raises)
TrackerSave == \E w \in 1..MaxTrackers : tracker_save(w)

NextOverlap == TrackerStart \/ TrackerFetch \/ TrackerSave \/ TwilioProgress

SpecOverlap == InitTracker /\ [][NextOverlap]_vars

(* C23: when two writers overlap on a DeliveryRecord no update is lost: a   *)
(* status fetched earlier never overwrites a status the other writer wrote *)
(* later, so the row keeps the most recent provider status.                *)
C23_NoLostUpdate ==
    last.op = "tracker_save" =>
        \/ last.prior = last.base
        \/ last.written = last.prior

====
